---- MODULE Spec2Model ----
(***************************************************************************)
(* A model of go-logger: the options-based configuration resolver          *)
(* (NewLogger and the With... options), the context field extractor        *)
(* (GetLoggingFields over the process-wide contextKeys registry) and the   *)
(* logger facade (Debug .. Fatal, With) over the zap engine.               *)
(***************************************************************************)
EXTENDS Integers, Sequences, FiniteSets, TLC

VARIABLES
    opts,         \* NewLogger: the options of the call in progress
    cfg,          \* NewLogger: the *config being resolved
    idx,          \* NewLogger: position of the `for _, opt := range opts` loop
    pc,           \* NewLogger: "idle", "enter", "apply", "build", "done"
    applied,      \* NewLogger: the option the last loop iteration applied, with the config before it
    ret,          \* NewLogger: what the last call returned (Logger, error)
    contextKeys,  \* the process-wide registry of context keys
    loggers,      \* the logger instances constructed so far
    counts,       \* per root logger, the production sampler's counters of this tick
    ctx,          \* the context.Context the caller holds
    status,       \* the process: "running", "panicking" or "exited"
    last,         \* the last facade or extractor call and its outcome
    prev,         \* the GetLoggingFields call before the last one
    threads,      \* per goroutine: the call it is in, its position and its locals
    hist          \* what the goroutines' calls did to each other so far

cfgVars    == <<opts, cfg, idx, pc, applied, ret>>
facadeVars == <<contextKeys, loggers, counts, ctx, status, last, prev>>
threadVars == <<threads, hist>>
vars       == <<opts, cfg, idx, pc, applied, ret, contextKeys, loggers, counts, ctx, status, last, prev,
                threads, hist>>

None == "<none>"

(***************************************************************************)
(* Bounds of the model.                                                    *)
(***************************************************************************)
MaxOpts == 3
MaxValidateOpts == 2
MaxAppended == 2
MaxCtx == 2
MaxLoggers == 3
MaxRoots == 1
MaxOverflow == 1
MaxThreads == 2
MaxAppendCalls == 2

(***************************************************************************)
(* Named values (types.go).                                                *)
(***************************************************************************)
AppModeDevelopment == "development"
AppModeStaging     == "staging"
AppModeProduction  == "production"
AppModeEmpty       == "empty"

EncodingJson    == "json"
EncodingConsole == "console"

LevelDebug   == "debug"
LevelInfo    == "info"
LevelWarning == "warning"
LevelError   == "error"
LevelPanic   == "panic"
LevelFatal   == "fatal"

\* zapcore's severities, as the integers zap orders them by.
DebugLevel  == -1
InfoLevel   == 0
WarnLevel   == 1
ErrorLevel  == 2
PanicLevel  == 4
FatalLevel  == 5

validEncoding == {EncodingConsole, EncodingJson}

\* (mutant) the encoding is passed on as it is
EncodingStringRaw(e) == e

\* Encoding.String: the encoding itself when valid, otherwise console.
EncodingString(e) == IF e \in validEncoding THEN e ELSE EncodingConsole

(***************************************************************************)
(* The *newrelic.Application handles a caller can pass.                    *)
(***************************************************************************)
NilApp == "nil"
NRApp  == "nrapp"

(***************************************************************************)
(* config (options.go): the zero value `&config{}` and the options.        *)
(***************************************************************************)
Fields == {"Level", "Encoding", "AppMode", "NewRelicApp", "TimeKey", "LevelKey",
           "NameKey", "CallerKey", "MessageKey", "StacktraceKey",
           "DisableStacktrace", "DisableCaller", "OutputPaths", "ErrorOutputPaths"}

ZeroConfig ==
    [Level |-> "", Encoding |-> "", AppMode |-> "", NewRelicApp |-> NilApp,
     TimeKey |-> "", LevelKey |-> "", NameKey |-> "", CallerKey |-> "",
     MessageKey |-> "", StacktraceKey |-> "",
     DisableStacktrace |-> FALSE, DisableCaller |-> FALSE,
     OutputPaths |-> <<>>, ErrorOutputPaths |-> <<>>]

\* (mutant) the level is set only while it still is the default
WithLevelIfUnset(level, c) == IF c.Level \in {"", "info"} THEN [c EXCEPT !.Level = level] ELSE c

WithLevel(level, c)       == [c EXCEPT !.Level = level]
WithEncoding(encoding, c) == [c EXCEPT !.Encoding = encoding]
WithAppMode(appMode, c)   == [c EXCEPT !.AppMode = appMode]
WithNewRelicApp(app, c)   == [c EXCEPT !.NewRelicApp = app]

\* (mutant) the default bundle also clears the New Relic handle
WithDefaultConfigAll(c) ==
    [Level |-> "info", Encoding |-> "json", AppMode |-> "development",
     NewRelicApp |-> NilApp,
     TimeKey |-> "time", LevelKey |-> "level", NameKey |-> "logger",
     CallerKey |-> "caller", MessageKey |-> "message", StacktraceKey |-> "stack_trace",
     DisableStacktrace |-> TRUE, DisableCaller |-> TRUE,
     OutputPaths |-> <<"stdout">>, ErrorOutputPaths |-> <<"stderr">>]

WithDefaultConfig(c) ==
    [c EXCEPT !.Level = LevelInfo,
              !.Encoding = EncodingJson,
              !.AppMode = AppModeDevelopment,
              !.TimeKey = "time",
              !.LevelKey = "level",
              !.NameKey = "logger",
              !.CallerKey = "caller",
              !.MessageKey = "message",
              !.StacktraceKey = "stack_trace",
              !.DisableStacktrace = TRUE,
              !.DisableCaller = TRUE,
              !.OutputPaths = <<"stdout">>,
              !.ErrorOutputPaths = <<"stderr">>]

WithTimeKey(k, c)       == [c EXCEPT !.TimeKey = k]
WithLevelKey(k, c)      == [c EXCEPT !.LevelKey = k]
WithNameKey(k, c)       == [c EXCEPT !.NameKey = k]
WithCallerKey(k, c)     == [c EXCEPT !.CallerKey = k]
WithMessageKey(k, c)    == [c EXCEPT !.MessageKey = k]
WithStacktraceKey(k, c) == [c EXCEPT !.StacktraceKey = k]
WithDisableStacktrace(b, c) == [c EXCEPT !.DisableStacktrace = b]
WithDisableCaller(b, c)     == [c EXCEPT !.DisableCaller = b]
WithOutputPaths(p, c)       == [c EXCEPT !.OutputPaths = p]
WithErrorOutputPaths(p, c)  == [c EXCEPT !.ErrorOutputPaths = p]

\* An Option value is the closure a With... function returns: here the
\* function's name and its argument list (a boolean as "true" or "false").
\* ApplyOption is the call opt(cfg).
Opt(name, args) == [name |-> name, args |-> args]
Arg(opt)     == opt.args[1]
BoolArg(opt) == opt.args[1] = "true"

ApplyOption(opt, c) ==
    CASE opt.name = "WithLevel"             -> WithLevel(Arg(opt), c)
      [] opt.name = "WithEncoding"          -> WithEncoding(Arg(opt), c)
      [] opt.name = "WithAppMode"           -> WithAppMode(Arg(opt), c)
      [] opt.name = "WithNewRelicApp"       -> WithNewRelicApp(Arg(opt), c)
      [] opt.name = "WithDefaultConfig"     -> WithDefaultConfig(c)
      [] opt.name = "WithTimeKey"           -> WithTimeKey(Arg(opt), c)
      [] opt.name = "WithLevelKey"          -> WithLevelKey(Arg(opt), c)
      [] opt.name = "WithNameKey"           -> WithNameKey(Arg(opt), c)
      [] opt.name = "WithCallerKey"         -> WithCallerKey(Arg(opt), c)
      [] opt.name = "WithMessageKey"        -> WithMessageKey(Arg(opt), c)
      [] opt.name = "WithStacktraceKey"     -> WithStacktraceKey(Arg(opt), c)
      [] opt.name = "WithDisableStacktrace" -> WithDisableStacktrace(BoolArg(opt), c)
      [] opt.name = "WithDisableCaller"     -> WithDisableCaller(BoolArg(opt), c)
      [] opt.name = "WithOutputPaths"       -> WithOutputPaths(opt.args, c)
      [] opt.name = "WithErrorOutputPaths"  -> WithErrorOutputPaths(opt.args, c)

\* The options callers pass to NewLogger in SpecConfig: for every With...
\* function at least one argument that is not the default, both handles, and
\* two values where the order of two writes to one field shows.
Options ==
    {Opt("WithLevel", <<l>>) : l \in {LevelError, LevelFatal}}
    \cup {Opt("WithEncoding", <<e>>) : e \in {EncodingConsole, "xml"}}
    \cup {Opt("WithAppMode", <<m>>) : m \in {AppModeStaging, AppModeProduction}}
    \cup {Opt("WithNewRelicApp", <<a>>) : a \in {NilApp, NRApp}}
    \cup {Opt("WithDefaultConfig", <<>>)}
    \cup {Opt("WithTimeKey", <<"timestamp">>), Opt("WithLevelKey", <<"severity">>),
          Opt("WithNameKey", <<"component">>), Opt("WithCallerKey", <<"source">>),
          Opt("WithMessageKey", <<"msg">>), Opt("WithStacktraceKey", <<"stack">>)}
    \cup {Opt("WithDisableStacktrace", <<"false">>), Opt("WithDisableCaller", <<"false">>)}
    \cup {Opt("WithOutputPaths", <<"stdout", "/var/log/app.log">>),
          Opt("WithErrorOutputPaths", <<"stderr", "/var/log/error.log">>)}

\* The options of SpecValidate: every level and mode string, named, empty
\* and unknown, with the settings that make construction fail elsewhere.
LevelArgs   == {LevelDebug, LevelInfo, LevelWarning, LevelError, LevelPanic, LevelFatal, "", "trace"}
AppModeArgs == {AppModeDevelopment, AppModeStaging, AppModeProduction, AppModeEmpty, "", "test"}

ValidateOptions ==
    {Opt("WithLevel", <<l>>) : l \in LevelArgs}
    \cup {Opt("WithAppMode", <<m>>) : m \in AppModeArgs}
    \cup {Opt("WithNewRelicApp", <<NRApp>>), Opt("WithDefaultConfig", <<>>),
          Opt("WithOutputPaths", <<"/nodir/app.log">>),
          Opt("WithErrorOutputPaths", <<"stderr", "/nodir/app.log">>)}

SeqsUpTo(S, n) == UNION {[1..k -> S] : k \in 0..n}

(***************************************************************************)
(* Errors: the message, the value it quotes and the level names it lists.  *)
(***************************************************************************)
LevelNames == <<"debug", "info", "warning", "error", "panic", "fatal">>

NoError           == [msg |-> "", arg |-> "", levels |-> <<>>]
ErrInvalidAppMode == [msg |-> "invalid app mode", arg |-> "", levels |-> <<>>]
ErrEmptyLevel     == [msg |-> "logging level cannot be empty", arg |-> "", levels |-> LevelNames]
ErrInvalidLevel(level) == [msg |-> "invalid logging level", arg |-> level, levels |-> LevelNames]
ErrOpenSink(path) == [msg |-> "open sink", arg |-> path, levels |-> <<>>]
ErrNilApp         == [msg |-> "nil newrelic application", arg |-> "", levels |-> <<>>]
ErrNoEncoder(name) == [msg |-> "no encoder registered for name", arg |-> name, levels |-> <<>>]

(***************************************************************************)
(* parseLevel (utils.go): Level -> (zap.AtomicLevel, error).               *)
(***************************************************************************)
\* (mutant) "warning" is not recognized, "warn" is
parseLevelWarn(level) ==
    IF level = "" THEN [level |-> InfoLevel, err |-> ErrEmptyLevel]
    ELSE CASE level = "debug" -> [level |-> DebugLevel, err |-> NoError]
           [] level = "info"  -> [level |-> InfoLevel,  err |-> NoError]
           [] level = "warn"  -> [level |-> WarnLevel,  err |-> NoError]
           [] level = "error" -> [level |-> ErrorLevel, err |-> NoError]
           [] level = "panic" -> [level |-> PanicLevel, err |-> NoError]
           [] level = "fatal" -> [level |-> FatalLevel, err |-> NoError]
           [] OTHER           -> [level |-> InfoLevel,  err |-> ErrInvalidLevel(level)]

\* (mutant) "warning" is given the engine's error level
parseLevelWarningAsError(level) ==
    IF level = "" THEN [level |-> InfoLevel, err |-> ErrEmptyLevel]
    ELSE CASE level = "debug"   -> [level |-> DebugLevel, err |-> NoError]
           [] level = "info"    -> [level |-> InfoLevel,  err |-> NoError]
           [] level = "warning" -> [level |-> ErrorLevel, err |-> NoError]
           [] level = "error"   -> [level |-> ErrorLevel, err |-> NoError]
           [] level = "panic"   -> [level |-> PanicLevel, err |-> NoError]
           [] level = "fatal"   -> [level |-> FatalLevel, err |-> NoError]
           [] OTHER             -> [level |-> InfoLevel,  err |-> ErrInvalidLevel(level)]

parseLevel(level) ==
    IF level = "" THEN [level |-> InfoLevel, err |-> ErrEmptyLevel]
    ELSE CASE level = LevelDebug   -> [level |-> DebugLevel, err |-> NoError]
           [] level = LevelInfo    -> [level |-> InfoLevel,  err |-> NoError]
           [] level = LevelWarning -> [level |-> WarnLevel,  err |-> NoError]
           [] level = LevelError   -> [level |-> ErrorLevel, err |-> NoError]
           [] level = LevelPanic   -> [level |-> PanicLevel, err |-> NoError]
           [] level = LevelFatal   -> [level |-> FatalLevel, err |-> NoError]
           [] OTHER                -> [level |-> InfoLevel,  err |-> ErrInvalidLevel(level)]

(***************************************************************************)
(* The engine (zap v1.27.0, go.mod): the two presets NewLogger starts      *)
(* from, Config.Build, and zap.New over a wrapped core.                    *)
(***************************************************************************)
\* The production preset samples: per tick, level and message the first
\* SamplingInitial entries are written, then each SamplingThereafter-th.
SamplingInitial    == 100
SamplingThereafter == 100

NewDevelopmentConfig ==
    [Level |-> DebugLevel, Development |-> TRUE, Sampling |-> FALSE,
     Encoding |-> "console",
     TimeKey |-> "T", LevelKey |-> "L", NameKey |-> "N", CallerKey |-> "C",
     MessageKey |-> "M", StacktraceKey |-> "S",
     DisableStacktrace |-> FALSE, DisableCaller |-> FALSE,
     OutputPaths |-> <<"stderr">>, ErrorOutputPaths |-> <<"stderr">>]

NewProductionConfig ==
    [Level |-> InfoLevel, Development |-> FALSE, Sampling |-> TRUE,
     Encoding |-> "json",
     TimeKey |-> "ts", LevelKey |-> "level", NameKey |-> "logger", CallerKey |-> "caller",
     MessageKey |-> "msg", StacktraceKey |-> "stacktrace",
     DisableStacktrace |-> FALSE, DisableCaller |-> FALSE,
     OutputPaths |-> <<"stderr">>, ErrorOutputPaths |-> <<"stderr">>]

\* The destinations of this model; the last one cannot be opened.
Paths == {"stdout", "stderr", "/var/log/app.log", "/var/log/error.log", "/nodir/app.log"}
Openable(path) == path # "/nodir/app.log"

RECURSIVE FirstUnopenable(_)
FirstUnopenable(paths) ==
    IF paths = <<>> THEN None
    ELSE IF ~Openable(Head(paths)) THEN Head(paths)
    ELSE FirstUnopenable(Tail(paths))

NoStacktrace == 99   \* no severity reaches it: stack traces are off

\* The *zap.Logger a configuration builds: the core (level, encoder, sinks,
\* sampler, forwarding) and the logger's own options.
ZapBuild(zc) ==
    [level          |-> zc.Level,
     sampling       |-> zc.Sampling,
     encoding       |-> zc.Encoding,
     timeKey        |-> zc.TimeKey,
     levelKey       |-> zc.LevelKey,
     nameKey        |-> zc.NameKey,
     callerKey      |-> zc.CallerKey,
     messageKey     |-> zc.MessageKey,
     stacktraceKey  |-> zc.StacktraceKey,
     outputPaths    |-> zc.OutputPaths,
     newRelic       |-> NilApp,
     development    |-> zc.Development,
     addCaller      |-> ~zc.DisableCaller,
     addStack       |-> IF zc.DisableStacktrace THEN NoStacktrace
                        ELSE IF zc.Development THEN WarnLevel ELSE ErrorLevel,
     errorOutput    |-> zc.ErrorOutputPaths]

\* zapConfig.Build(): the encoder is looked up by name (zap registers
\* "console" and "json"), then the sinks are opened, the normal ones before
\* the error ones.
ZapBuildError(zc) ==
    IF zc.Encoding \notin {"console", "json"}
    THEN ErrNoEncoder(zc.Encoding)
    ELSE IF FirstUnopenable(zc.OutputPaths) # None
    THEN ErrOpenSink(FirstUnopenable(zc.OutputPaths))
    ELSE IF FirstUnopenable(zc.ErrorOutputPaths) # None
    THEN ErrOpenSink(FirstUnopenable(zc.ErrorOutputPaths))
    ELSE NoError

\* nrzap.WrapBackgroundCore(zaplog.Core(), app) then zap.New(core): the core
\* forwards to app; zap.New is given no option, so the logger's own options
\* are zap's defaults.
WrapBackgroundCoreError(app) == IF app = NilApp THEN ErrNilApp ELSE NoError

\* (mutant) the logger is rebuilt over the core as it was, not the wrapped one
ZapNewUnwrapped(zl, app) ==
    [zl EXCEPT !.development = FALSE,
               !.addCaller   = FALSE,
               !.addStack    = NoStacktrace,
               !.errorOutput = <<"stderr">>]

ZapNewWrapped(zl, app) ==
    [zl EXCEPT !.newRelic    = app,
               !.development = FALSE,
               !.addCaller   = FALSE,
               !.addStack    = NoStacktrace,
               !.errorOutput = <<"stderr">>]

NoEngine == ZapBuild(NewProductionConfig)

\* Lines 112-117: the wrap, its error returned with no logger, else zap.New.
WrapCore(zl, app) ==
    IF WrapBackgroundCoreError(app) # NoError
    THEN [err |-> WrapBackgroundCoreError(app), engine |-> NoEngine]
    ELSE [err |-> NoError, engine |-> ZapNewWrapped(zl, app)]

(***************************************************************************)
(* NewLogger (logger.go), after the options are applied: lines 76-123.     *)
(***************************************************************************)
\* (mutant) the named value AppModeEmpty passes the mode switch
IsValidAppModeOrEmpty(m) == m \in {"development", "staging", "production", "empty"}

IsValidAppMode(m) == m \in {AppModeDevelopment, AppModeStaging, AppModeProduction}

Preset(appMode) ==
    IF appMode \in {AppModeDevelopment, AppModeStaging}
    THEN NewDevelopmentConfig
    ELSE NewProductionConfig

\* zapConfig after lines 94-105.
ZapConfigOf(c) ==
    [Preset(c.AppMode) EXCEPT
        !.Level             = parseLevel(c.Level).level,
        !.Encoding          = EncodingString(c.Encoding),
        !.TimeKey           = c.TimeKey,
        !.LevelKey          = c.LevelKey,
        !.NameKey           = c.NameKey,
        !.CallerKey         = c.CallerKey,
        !.MessageKey        = c.MessageKey,
        !.StacktraceKey     = c.StacktraceKey,
        !.DisableStacktrace = c.DisableStacktrace,
        !.DisableCaller     = c.DisableCaller,
        !.OutputPaths       = c.OutputPaths,
        !.ErrorOutputPaths  = c.ErrorOutputPaths]

\* What NewLogger returns for the resolved config c: the error (NoError on
\* success) and the engine of the logger.
Resolve(c) ==
    IF ~IsValidAppMode(c.AppMode)
    THEN [err |-> ErrInvalidAppMode, engine |-> NoEngine]
    ELSE IF parseLevel(c.Level).err # NoError
    THEN [err |-> parseLevel(c.Level).err, engine |-> NoEngine]
    ELSE IF ZapBuildError(ZapConfigOf(c)) # NoError
    THEN [err |-> ZapBuildError(ZapConfigOf(c)), engine |-> NoEngine]
    ELSE IF c.NewRelicApp # NilApp
    THEN WrapCore(ZapBuild(ZapConfigOf(c)), c.NewRelicApp)
    ELSE [err |-> NoError, engine |-> ZapBuild(ZapConfigOf(c))]


NoOption == Opt(None, <<>>)
NoReturn == [done |-> FALSE, err |-> NoError, logger |-> 0]

(***************************************************************************)
(* Context keys and the registry (types.go).                               *)
(***************************************************************************)
ContextKeyUserID                 == "user_id"
ContextKeyTraceID                == "trace_id"
ContextKeySpanID                 == "span_id"
ContextKeyEntityGuid             == "entity_guid"
ContextKeyHostname               == "hostname"
ContextKeyApplicationName        == "application_name"
ContextKeyApplicationEnvironment == "application_environment"
ContextKeyRequestID              == "request_id"
ContextKeyAcceptLanguage         == "accept_language"
ContextKeyUserContext            == "user_context"
ContextKeyIpAddress              == "ip_address"

\* var contextKeys = []ContextKey{...}: the registry at process start.
BuiltinKeys ==
    <<ContextKeyUserID, ContextKeyTraceID, ContextKeySpanID, ContextKeyEntityGuid,
      ContextKeyHostname, ContextKeyApplicationName, ContextKeyApplicationEnvironment,
      ContextKeyRequestID, ContextKeyAcceptLanguage, ContextKeyUserContext,
      ContextKeyIpAddress>>

(***************************************************************************)
(* context.Context: nil, or the chain of context.WithValue bindings over   *)
(* context.Background(), outermost first.  A binding's key has a Go type   *)
(* (ContextKey or plain string) and its value is a string or not.          *)
(***************************************************************************)
NilContext == [nil |-> TRUE,  chain |-> <<>>]
Background == [nil |-> FALSE, chain |-> <<>>]

Binding(keyType, key, kind, val) == [keyType |-> keyType, key |-> key, kind |-> kind, val |-> val]

ContextWithValue(c, b) == [nil |-> FALSE, chain |-> Append(c.chain, b)]

\* ctx.Value(key) for a ContextKey key: the innermost binding whose key is
\* equal to it, type included; nil when there is none.
RECURSIVE ChainValue(_, _)
ChainValue(chain, key) ==
    IF chain = <<>> THEN [kind |-> "nil", val |-> ""]
    ELSE LET b == chain[Len(chain)] IN
         IF b.keyType = "ContextKey" /\ b.key = key
         THEN [kind |-> b.kind, val |-> b.val]
         ELSE ChainValue(SubSeq(chain, 1, Len(chain) - 1), key)

\* A method call on a nil interface panics.
ContextValue(c, key) ==
    IF c.nil THEN [kind |-> "panic", val |-> ""] ELSE ChainValue(c.chain, key)

(***************************************************************************)
(* getStringFromContext, GetLoggingFields, AppendContextKeys (utils.go).   *)
(***************************************************************************)
\* (mutant) a value of any type is formatted into a string
getStringFromContextAny(c, key) ==
    IF c.nil THEN [str |-> "", ok |-> FALSE]
    ELSE IF key = "" THEN [str |-> "", ok |-> FALSE]
    ELSE LET val == ContextValue(c, key) IN
         IF val.kind = "nil" THEN [str |-> "", ok |-> FALSE]
         ELSE [str |-> val.val, ok |-> TRUE]

getStringFromContext(c, key) ==
    IF c.nil THEN [str |-> "", ok |-> FALSE]
    ELSE IF key = "" THEN [str |-> "", ok |-> FALSE]
    ELSE LET val == ContextValue(c, key) IN
         IF val.kind = "nil" THEN [str |-> "", ok |-> FALSE]
         ELSE IF val.kind = "string" THEN [str |-> val.val, ok |-> TRUE]
         ELSE [str |-> "", ok |-> FALSE]

LoggingField(key, value) == [Key |-> key, Value |-> value]

\* for _, key := range keys { ... }
RECURSIVE RangeContextKeys(_, _)
RangeContextKeys(c, keys) ==
    IF keys = <<>> THEN <<>>
    ELSE LET key == Head(keys)
             rest == RangeContextKeys(c, Tail(keys))
         IN  IF key = "" THEN rest
             ELSE IF getStringFromContext(c, key).ok
             THEN <<LoggingField(key, getStringFromContext(c, key).str)>> \o rest
             ELSE rest

GetLoggingFields(c) ==
    IF c.nil THEN <<>> ELSE RangeContextKeys(c, contextKeys)

\* The record of a call: what was called with what, and what came of it.
NoEntry == [level |-> InfoLevel, msg |-> "", fields |-> <<>>]
NoCall ==
    [op |-> None, logger |-> 0, msg |-> "", args |-> <<>>, ctx |-> NilContext,
     keys |-> <<>>, result |-> <<>>, emitted |-> FALSE, entry |-> NoEntry,
     n |-> 0, written |-> FALSE, forwarded |-> FALSE,
     panicked |-> FALSE, exited |-> FALSE, effects |-> <<>>]

\* A goroutine that is in no call, and the goroutines before any call.
Threads == 1..MaxThreads
NoThread ==
    [pc |-> "idle", op |-> None, logger |-> 0, keys |-> <<>>, seen |-> <<>>,
     result |-> <<>>, emitted |-> FALSE, entry |-> NoEntry]
NoThreads == [t \in Threads |-> NoThread]

\* Nothing has happened between goroutines yet: no store of the registry's
\* slice header is half done (writing), no read or store has met a half
\* done store (ub), no call has begun while a conflicting one was in
\* progress, and no append has returned.
NoHist ==
    [writing |-> 0, ub |-> FALSE, overlapRW |-> FALSE, overlapWW |-> FALSE,
     begun |-> 0, appends |-> <<>>]

Running == status = "running" /\ pc \in {"idle", "done"}

\* The most recent GetLoggingFields call before the last call.
PrevGet == IF last.op = "GetLoggingFields" THEN last ELSE prev

\* (mutant) the extraction drops the empty keys from the registry as it goes
GetLoggingFieldsCallCompacting ==
    /\ Running
    /\ last' = [NoCall EXCEPT !.op = "GetLoggingFields", !.ctx = ctx,
                              !.keys = contextKeys, !.result = GetLoggingFields(ctx)]
    /\ prev' = PrevGet
    /\ contextKeys' = SelectSeq(contextKeys, LAMBDA k : k # "")
    /\ UNCHANGED <<threadVars, cfgVars, loggers, counts, ctx, status>>

\* A caller evaluates GetLoggingFields(ctx).
GetLoggingFieldsCall ==
    /\ Running
    /\ last' = [NoCall EXCEPT !.op = "GetLoggingFields", !.ctx = ctx,
                              !.keys = contextKeys, !.result = GetLoggingFields(ctx)]
    /\ prev' = PrevGet
    /\ UNCHANGED <<threadVars, cfgVars, contextKeys, loggers, counts, ctx, status>>

\* (mutant) empty keys and keys already registered are left out
AppendContextKeysValidated(keys) ==
    /\ Running
    /\ Len(contextKeys) + Len(keys) <= Len(BuiltinKeys) + MaxAppended
    /\ contextKeys' = contextKeys \o
           SelectSeq(keys, LAMBDA k :
               k # "" /\ k \notin {contextKeys[i] : i \in 1..Len(contextKeys)})
    /\ last' = [NoCall EXCEPT !.op = "AppendContextKeys", !.ctx = ctx,
                              !.keys = contextKeys, !.result = keys]
    /\ prev' = PrevGet
    /\ UNCHANGED <<threadVars, cfgVars, loggers, counts, ctx, status>>

\* (mutant) the keys are put in front of the registered ones
AppendContextKeysFront(keys) ==
    /\ Running
    /\ Len(contextKeys) + Len(keys) <= Len(BuiltinKeys) + MaxAppended
    /\ contextKeys' = keys \o contextKeys
    /\ last' = [NoCall EXCEPT !.op = "AppendContextKeys", !.ctx = ctx,
                              !.keys = contextKeys, !.result = keys]
    /\ prev' = PrevGet
    /\ UNCHANGED <<threadVars, cfgVars, loggers, counts, ctx, status>>

\* AppendContextKeys(keys...)
AppendContextKeys(keys) ==
    /\ Running
    /\ Len(contextKeys) + Len(keys) <= Len(BuiltinKeys) + MaxAppended
    /\ contextKeys' = contextKeys \o keys
    /\ last' = [NoCall EXCEPT !.op = "AppendContextKeys", !.ctx = ctx,
                              !.keys = contextKeys, !.result = keys]
    /\ prev' = PrevGet
    /\ UNCHANGED <<threadVars, cfgVars, loggers, counts, ctx, status>>

\* The caller derives a context from the one it holds:
\* ctx = context.WithValue(ctx, key, val).
WithValue(b) ==
    /\ Running
    /\ ~ctx.nil
    /\ Len(ctx.chain) < MaxCtx
    /\ ctx' = ContextWithValue(ctx, b)
    /\ last' = [NoCall EXCEPT !.op = "WithValue", !.ctx = ctx, !.keys = contextKeys]
    /\ prev' = PrevGet
    /\ UNCHANGED <<threadVars, cfgVars, contextKeys, loggers, counts, status>>

\* The bindings and the keys callers use in this model.
Bindings ==
    {Binding("ContextKey", "user_id", "string", "u1"),
     Binding("ContextKey", "user_id", "int", "7"),
     Binding("ContextKey", "trace_id", "string", ""),
     Binding("ContextKey", "ip_address", "string", "10.0.0.1"),
     Binding("ContextKey", "tenant", "string", "acme"),
     Binding("ContextKey", "", "string", "anonymous"),
     Binding("string", "request_id", "string", "r1")}

AppendArgs == SeqsUpTo({"tenant", ""}, 2)

(***************************************************************************)
(* SpecExtract: a caller that holds nil or a context, derives contexts,    *)
(* appends keys to the registry and extracts fields.                       *)
(***************************************************************************)
InitExtract ==
    /\ opts = <<>>
    /\ cfg = ZeroConfig
    /\ idx = 0
    /\ pc = "idle"
    /\ applied = [opt |-> NoOption, before |-> ZeroConfig]
    /\ ret = NoReturn
    /\ contextKeys = BuiltinKeys
    /\ loggers = <<>>
    /\ counts = <<>>
    /\ ctx \in {NilContext, Background}
    /\ status = "running"
    /\ last = NoCall
    /\ prev = NoCall
    /\ threads = NoThreads
    /\ hist = NoHist

NextExtract ==
    \/ GetLoggingFieldsCall
    \/ \E keys \in AppendArgs : AppendContextKeys(keys)
    \/ \E b \in Bindings : WithValue(b)

SpecExtract == InitExtract /\ [][NextExtract]_vars

(***************************************************************************)
(* The engine's side of an emission (zap v1.27.0): Logger.With, the level  *)
(* check, the production sampler and the hooks of Panic and Fatal.         *)
(***************************************************************************)
\* zap.String(key, val), and the other fields callers pass.
ZapString(key, val) == [Key |-> key, Type |-> "String", String |-> val]
ZapInt(key, val)    == [Key |-> key, Type |-> "Int64", String |-> val]

Messages   == {"started"}
Severities == {DebugLevel, InfoLevel, WarnLevel, ErrorLevel, PanicLevel, FatalLevel}
SampleKeys == Severities \X Messages

\* The sampler's counters of one tick, all zero.
NoCounts == [k \in SampleKeys |-> 0]

\* core.Enabled(sev): the level of the configuration is the minimum.
ZapEnabled(engine, sev) == sev >= engine.level

\* Logger.check hands the entry to the core when the level is enabled, and
\* always at the levels that panic or exit.  The wrapping core of nrzap lets
\* the wrapped core check the entry and then adds itself, so it is given
\* every entry that gets this far.
ZapChecked(engine, sev) == ZapEnabled(engine, sev) \/ sev >= PanicLevel

\* The entries of one level and message a tick is given in this model.
BurstLimit == SamplingInitial + MaxOverflow

\* The sampler, given that this is the n-th enabled entry of its level and
\* message in the tick: it drops what follows the first SamplingInitial
\* except each SamplingThereafter-th.
ZapSampledOut(engine, n) ==
    /\ engine.sampling
    /\ n > SamplingInitial
    /\ (n - SamplingInitial) % SamplingThereafter # 0

(***************************************************************************)
(* zapLogger (zap.go): extractTrace, the six emissions, With.              *)
(***************************************************************************)
\* ContextKey.String(): the key's text.
ContextKeyString(ck) == ck

RECURSIVE ToZapFields(_)
ToZapFields(ctxFields) ==
    IF ctxFields = <<>> THEN <<>>
    ELSE <<ZapString(ContextKeyString(Head(ctxFields).Key), Head(ctxFields).Value)>>
         \o ToZapFields(Tail(ctxFields))

\* (mutant) a nil context is marked with a field of its own
extractTraceMarkNil(c) ==
    IF c.nil THEN <<ZapString("context", "nil")>> ELSE ToZapFields(GetLoggingFields(c))

extractTrace(c) == ToZapFields(GetLoggingFields(c))

\* (mutant) the call's own fields are put before the context's
EntryOfCallFirst(lg, trace, sev, msg, fields) ==
    [level |-> sev, msg |-> msg, fields |-> (lg.fields \o fields) \o trace]

\* The entry z.zapLogger.With(trace...).<Sev>(msg, fields...) hands to the
\* core of logger lg: the fields fixed on lg, then the ones added by this
\* With, then the call's own.
EntryOf(lg, trace, sev, msg, fields) ==
    [level |-> sev, msg |-> msg, fields |-> (lg.fields \o trace) \o fields]

\* (mutant) the hook of the level runs before the cores are written
EffectsOfHookFirst(written, forwarded, sev) ==
    ((IF sev = PanicLevel THEN <<"panic">> ELSE IF sev = FatalLevel THEN <<"exit">> ELSE <<>>)
     \o (IF written THEN <<"write">> ELSE <<>>))
    \o (IF forwarded THEN <<"forward">> ELSE <<>>)

\* What <Severity>(msg, fields...) does, in order (CheckedEntry.Write): the
\* cores that took the entry are written, the wrapped one before the
\* wrapping one, and then the hook of the level runs: panic(msg) at
\* PanicLevel, os.Exit(1) at FatalLevel.
EffectsOf(written, forwarded, sev) ==
    ((IF written THEN <<"write">> ELSE <<>>)
     \o (IF forwarded THEN <<"forward">> ELSE <<>>))
    \o (IF sev = PanicLevel THEN <<"panic">> ELSE IF sev = FatalLevel THEN <<"exit">> ELSE <<>>)

\* One emission on logger l.  burst bounds the entries of one level and
\* message a sampling core is given within a tick, and a tick holds the
\* entries of one level and message.
Emit(op, sev, l, msg, fields, burst) ==
    LET lg      == loggers[l]
        key     == <<sev, msg>>
        enabled == ZapEnabled(lg.engine, sev)
        counted == enabled /\ lg.engine.sampling
        n       == IF counted THEN counts[lg.root][key] + 1 ELSE 0
        written == enabled /\ ~ZapSampledOut(lg.engine, n)
        checked == ZapChecked(lg.engine, sev)
    IN  /\ Running
        /\ counted => /\ n <= burst
                      /\ \A k \in SampleKeys \ {key} : counts[lg.root][k] = 0
        /\ counts' = IF counted THEN [counts EXCEPT ![lg.root][key] = n] ELSE counts
        /\ last' = [NoCall EXCEPT !.op = op, !.logger = l, !.msg = msg, !.args = fields,
                                  !.ctx = ctx, !.keys = contextKeys,
                                  !.result = GetLoggingFields(ctx),
                                  !.emitted = TRUE,
                                  !.entry = EntryOf(lg, extractTrace(ctx), sev, msg, fields),
                                  !.n = n,
                                  !.written = written,
                                  !.forwarded = checked /\ lg.engine.newRelic # NilApp,
                                  !.panicked = (sev = PanicLevel),
                                  !.exited = (sev = FatalLevel),
                                  !.effects = EffectsOf(written,
                                      checked /\ lg.engine.newRelic # NilApp, sev)]
        /\ status' = IF sev = PanicLevel THEN "panicking"
                     ELSE IF sev = FatalLevel THEN "exited"
                     ELSE status
        /\ prev' = PrevGet
        /\ UNCHANGED <<threadVars, cfgVars, contextKeys, loggers, ctx>>

Debug(l, msg, fields, burst) == Emit("Debug", DebugLevel, l, msg, fields, burst)
Info(l, msg, fields, burst)  == Emit("Info",  InfoLevel,  l, msg, fields, burst)
Warn(l, msg, fields, burst)  == Emit("Warn",  WarnLevel,  l, msg, fields, burst)
Error(l, msg, fields, burst) == Emit("Error", ErrorLevel, l, msg, fields, burst)
Panic(l, msg, fields, burst) == Emit("Panic", PanicLevel, l, msg, fields, burst)
Fatal(l, msg, fields, burst) == Emit("Fatal", FatalLevel, l, msg, fields, burst)

\* The fields of the logger With returns.
WithFields(lg, fields) == lg.fields \o fields

\* (mutant) the fields are appended to the receiver's own list as well
WithInPlace(l, fields) ==
    /\ Running
    /\ Len(loggers) < MaxLoggers
    /\ loggers' = Append([loggers EXCEPT ![l].fields = @ \o fields],
           [engine |-> loggers[l].engine, fields |-> WithFields(loggers[l], fields),
            root |-> loggers[l].root, parent |-> l, added |-> fields])
    /\ counts' = Append(counts, NoCounts)
    /\ last' = [NoCall EXCEPT !.op = "With", !.logger = l, !.args = fields,
                              !.ctx = ctx, !.keys = contextKeys]
    /\ prev' = PrevGet
    /\ UNCHANGED <<threadVars, cfgVars, contextKeys, ctx, status>>

\* With(fields...): a new instance over z.zapLogger.With(fields...); it
\* shares the core, and so the sampler, of the receiver.
With(l, fields) ==
    /\ Running
    /\ Len(loggers) < MaxLoggers
    /\ loggers' = Append(loggers,
           [engine |-> loggers[l].engine, fields |-> WithFields(loggers[l], fields),
            root |-> loggers[l].root, parent |-> l, added |-> fields])
    /\ counts' = Append(counts, NoCounts)
    /\ last' = [NoCall EXCEPT !.op = "With", !.logger = l, !.args = fields,
                              !.ctx = ctx, !.keys = contextKeys]
    /\ prev' = PrevGet
    /\ UNCHANGED <<threadVars, cfgVars, contextKeys, ctx, status>>

\* The sampler's tick passes: its counters start again.
Tick ==
    /\ Running
    /\ \E r \in 1..Len(counts) : counts[r] # NoCounts
    /\ counts' = [r \in 1..Len(counts) |-> NoCounts]
    /\ UNCHANGED <<threadVars, cfgVars, contextKeys, loggers, ctx, status, last, prev>>

\* A deferred recover() in the caller stops the panic of a Panic emission.
Recover ==
    /\ status = "panicking"
    /\ status' = "running"
    /\ UNCHANGED <<threadVars, cfgVars, contextKeys, loggers, counts, ctx, last, prev>>

(***************************************************************************)
(* NewLogger (logger.go:65-123), one step per statement group.  A logger   *)
(* instance is the engine it wraps, the fields fixed on it by With, and    *)
(* the root logger whose core (and sampler) it shares.                     *)
(***************************************************************************)
\* cfg := &config{}; WithDefaultConfig()(cfg)
NewLoggerEnter ==
    /\ pc = "enter"
    /\ cfg' = WithDefaultConfig(ZeroConfig)
    /\ idx' = 1
    /\ pc' = "apply"
    /\ UNCHANGED <<threadVars, opts, applied, ret, facadeVars>>

\* for _, opt := range opts { opt(cfg) }: one iteration
NewLoggerApply ==
    /\ pc = "apply"
    /\ idx <= Len(opts)
    /\ cfg' = ApplyOption(opts[idx], cfg)
    /\ applied' = [opt |-> opts[idx], before |-> cfg]
    /\ idx' = idx + 1
    /\ UNCHANGED <<threadVars, opts, pc, ret, facadeVars>>

\* lines 76-123: the mode's preset, parseLevel, the overrides, Build, the
\* New Relic wrap, and the return
NewLoggerBuild ==
    /\ pc = "apply"
    /\ idx > Len(opts)
    /\ LET r == Resolve(cfg) IN
         IF r.err # NoError
         THEN /\ ret' = [done |-> TRUE, err |-> r.err, logger |-> 0]
              /\ UNCHANGED <<loggers, counts>>
         ELSE /\ loggers' = Append(loggers,
                     [engine |-> r.engine, fields |-> <<>>, root |-> Len(loggers) + 1,
                      parent |-> 0, added |-> <<>>])
              /\ counts' = Append(counts, NoCounts)
              /\ ret' = [done |-> TRUE, err |-> NoError, logger |-> Len(loggers) + 1]
    /\ pc' = "done"
    /\ UNCHANGED <<threadVars, opts, cfg, idx, applied, contextKeys, ctx, status, last, prev>>

(***************************************************************************)
(* SpecConfig: one NewLogger call on each sequence of at most MaxOpts      *)
(* options.                                                                *)
(***************************************************************************)
InitConfig ==
    /\ opts \in SeqsUpTo(Options, MaxOpts)
    /\ cfg = ZeroConfig
    /\ idx = 0
    /\ pc = "enter"
    /\ applied = [opt |-> NoOption, before |-> ZeroConfig]
    /\ ret = NoReturn
    /\ contextKeys = BuiltinKeys
    /\ loggers = <<>>
    /\ counts = <<>>
    /\ ctx = Background
    /\ status = "running"
    /\ last = NoCall
    /\ prev = NoCall
    /\ threads = NoThreads
    /\ hist = NoHist

NextConfig == NewLoggerEnter \/ NewLoggerApply \/ NewLoggerBuild

SpecConfig == InitConfig /\ [][NextConfig]_vars

(***************************************************************************)
(* SpecValidate: one NewLogger call on each sequence of at most            *)
(* MaxValidateOpts of the level, mode and destination options.             *)
(***************************************************************************)
InitValidate ==
    /\ opts \in SeqsUpTo(ValidateOptions, MaxValidateOpts)
    /\ cfg = ZeroConfig
    /\ idx = 0
    /\ pc = "enter"
    /\ applied = [opt |-> NoOption, before |-> ZeroConfig]
    /\ ret = NoReturn
    /\ contextKeys = BuiltinKeys
    /\ loggers = <<>>
    /\ counts = <<>>
    /\ ctx = Background
    /\ status = "running"
    /\ last = NoCall
    /\ prev = NoCall
    /\ threads = NoThreads
    /\ hist = NoHist

SpecValidate == InitValidate /\ [][NextConfig]_vars

(***************************************************************************)
(* Spec: a program that constructs loggers, derives child loggers and      *)
(* contexts, appends keys, extracts fields and emits.                      *)
(***************************************************************************)
\* A caller calls NewLogger(opts...).
NewLoggerCall(o) ==
    /\ Running
    /\ Cardinality({i \in 1..Len(loggers) : loggers[i].parent = 0}) < MaxRoots
    /\ Len(loggers) < MaxLoggers
    /\ opts' = o
    /\ pc' = "enter"
    /\ UNCHANGED <<threadVars, cfg, idx, applied, ret, facadeVars>>

FacadeOpts ==
    {<<>>, <<Opt("WithLevel", <<LevelWarning>>), Opt("WithNewRelicApp", <<NRApp>>)>>,
     <<Opt("WithLevel", <<"">>)>>}

FacadeBindings ==
    {Binding("ContextKey", "user_id", "string", "u1"),
     Binding("ContextKey", "tenant", "string", "acme")}

WithArgs == {<<ZapString("component", "db")>>, <<ZapString("request", "42")>>}

FacadeAppendArgs == {<<"", "tenant">>}

FieldArgs == {<<>>, <<ZapInt("attempt", "3"), ZapString("component", "db")>>}

Init ==
    /\ opts = <<>>
    /\ cfg = ZeroConfig
    /\ idx = 0
    /\ pc = "idle"
    /\ applied = [opt |-> NoOption, before |-> ZeroConfig]
    /\ ret = NoReturn
    /\ contextKeys = BuiltinKeys
    /\ loggers = <<>>
    /\ counts = <<>>
    /\ ctx \in {NilContext, Background}
    /\ status = "running"
    /\ last = NoCall
    /\ prev = NoCall
    /\ threads = NoThreads
    /\ hist = NoHist

Next ==
    \/ \E o \in FacadeOpts : NewLoggerCall(o)
    \/ NewLoggerEnter
    \/ NewLoggerApply
    \/ NewLoggerBuild
    \/ \E l \in 1..Len(loggers), msg \in Messages, fields \in FieldArgs :
          \/ Debug(l, msg, fields, BurstLimit)
          \/ Info(l, msg, fields, BurstLimit)
          \/ Warn(l, msg, fields, BurstLimit)
          \/ Error(l, msg, fields, BurstLimit)
          \/ Panic(l, msg, fields, BurstLimit)
          \/ Fatal(l, msg, fields, BurstLimit)
    \/ \E l \in 1..Len(loggers), fields \in WithArgs : With(l, fields)
    \/ \E keys \in FacadeAppendArgs : AppendContextKeys(keys)
    \/ \E b \in FacadeBindings : WithValue(b)
    \/ Recover

Spec == Init /\ [][Next]_vars

(***************************************************************************)
(* SpecLevel: a logger constructed with each level in each mode, and a     *)
(* caller that emits on it, at one severity for as long as a tick lasts.   *)
(***************************************************************************)
LevelOpts ==
    {<<Opt("WithLevel", <<l>>), Opt("WithAppMode", <<m>>)>> :
        l \in {LevelDebug, LevelInfo, LevelWarning, LevelError, LevelPanic, LevelFatal},
        m \in {AppModeDevelopment, AppModeStaging, AppModeProduction}}

InitLevel ==
    /\ opts \in LevelOpts
    /\ cfg = ZeroConfig
    /\ idx = 0
    /\ pc = "enter"
    /\ applied = [opt |-> NoOption, before |-> ZeroConfig]
    /\ ret = NoReturn
    /\ contextKeys = BuiltinKeys
    /\ loggers = <<>>
    /\ counts = <<>>
    /\ ctx = Background
    /\ status = "running"
    /\ last = NoCall
    /\ prev = NoCall
    /\ threads = NoThreads
    /\ hist = NoHist

NextLevel ==
    \/ NewLoggerEnter
    \/ NewLoggerApply
    \/ NewLoggerBuild
    \/ \E l \in 1..Len(loggers) :
          \/ Debug(l, "started", <<>>, BurstLimit)
          \/ Info(l, "started", <<>>, BurstLimit)
          \/ Warn(l, "started", <<>>, BurstLimit)
          \/ Error(l, "started", <<>>, BurstLimit)
          \/ Panic(l, "started", <<>>, BurstLimit)
          \/ Fatal(l, "started", <<>>, BurstLimit)
    \/ Tick
    \/ Recover

SpecLevel == InitLevel /\ [][NextLevel]_vars

(***************************************************************************)
(* SpecForward: loggers constructed with and without a New Relic           *)
(* application, in a mode with and one without the sampler, and a caller   *)
(* that emits on them.                                                     *)
(***************************************************************************)
ForwardOpts ==
    {<<Opt("WithLevel", <<l>>), Opt("WithAppMode", <<m>>), Opt("WithNewRelicApp", <<a>>)>> :
        l \in {LevelInfo, LevelFatal},
        m \in {AppModeDevelopment, AppModeProduction},
        a \in {NilApp, NRApp}}

InitForward ==
    /\ opts \in ForwardOpts
    /\ cfg = ZeroConfig
    /\ idx = 0
    /\ pc = "enter"
    /\ applied = [opt |-> NoOption, before |-> ZeroConfig]
    /\ ret = NoReturn
    /\ contextKeys = BuiltinKeys
    /\ loggers = <<>>
    /\ counts = <<>>
    /\ ctx = Background
    /\ status = "running"
    /\ last = NoCall
    /\ prev = NoCall
    /\ threads = NoThreads
    /\ hist = NoHist

SpecForward == InitForward /\ [][NextLevel]_vars

(***************************************************************************)
(* Goroutines.  Nothing in the package synchronizes, so a call is a run of *)
(* steps, one per access to the shared registry, that interleave with the  *)
(* steps of the other goroutines' calls.  The registry variable is a slice *)
(* header of several words: a store of it is two steps, and a goroutine    *)
(* that loads or stores it between the two has met a torn header, after    *)
(* which nothing about the process is known (hist.ub) and the model stops. *)
(***************************************************************************)
\* What each goroutine passes: its context, its fields, the key it appends.
ThreadCtx(t) ==
    IF t = 1
    THEN ContextWithValue(ContextWithValue(Background,
             Binding("ContextKey", "user_id", "string", "u1")),
             Binding("ContextKey", "tenant", "string", "acme"))
    ELSE ContextWithValue(ContextWithValue(Background,
             Binding("ContextKey", "user_id", "string", "u2")),
             Binding("ContextKey", "region", "string", "eu"))

ThreadFields(t) ==
    IF t = 1 THEN <<ZapInt("attempt", "3")>> ELSE <<ZapString("component", "db")>>

ThreadKeys(t) == IF t = 1 THEN <<"tenant">> ELSE <<"region", "">>

ThreadOp(t) == IF t = 1 THEN "Info" ELSE "Error"

ThreadSeverity(op) == IF op = "Info" THEN InfoLevel ELSE ErrorLevel

ThreadWithArgs == {<<ZapString("request", "42")>>}

\* (mutant) the extraction stores the registry back while it ranges over it
AccessRangeStores(p) ==
    CASE p \in {"append:load", "get:len"}                     -> "read"
      [] p \in {"append:store", "append:store2", "get:range"} -> "write"
      [] OTHER                                                -> "none"

\* The access to the registry variable a goroutine at position p makes
\* next: append loads the header and stores it (utils.go:132),
\* GetLoggingFields loads its length (utils.go:113) and then the header,
\* once, for the range loop (utils.go:115).
Access(p) ==
    CASE p \in {"append:load", "get:len", "get:range"} -> "read"
      [] p \in {"append:store", "append:store2"}       -> "write"
      [] OTHER                                         -> "none"

InAppend(t)  == threads[t].pc \in {"append:load", "append:store", "append:store2"}
InExtract(t) == threads[t].pc \in {"get:len", "get:range", "get:iter"}

CanStep == Running /\ ~hist.ub

\* go AppendContextKeys(key)
ThreadCallAppend(t) ==
    /\ CanStep
    /\ threads[t].pc = "idle"
    /\ hist.begun < MaxAppendCalls
    /\ threads' = [threads EXCEPT ![t] =
           [NoThread EXCEPT !.pc = "append:load", !.op = "AppendContextKeys",
                            !.keys = ThreadKeys(t)]]
    /\ hist' = [hist EXCEPT
           !.begun = @ + 1,
           !.overlapWW = @ \/ \E u \in Threads \ {t} : InAppend(u),
           !.overlapRW = @ \/ \E u \in Threads \ {t} : InExtract(u)]
    /\ UNCHANGED <<cfgVars, facadeVars>>

\* append(contextKeys, keys...): the header is loaded
ThreadAppendLoad(t) ==
    /\ CanStep
    /\ threads[t].pc = "append:load"
    /\ threads' = [threads EXCEPT ![t].pc = "append:store", ![t].seen = contextKeys]
    /\ hist' = [hist EXCEPT !.ub = @ \/ hist.writing # 0]
    /\ UNCHANGED <<cfgVars, facadeVars>>

\* contextKeys = ...: the first word of the new header is stored
ThreadAppendStore(t) ==
    /\ CanStep
    /\ threads[t].pc = "append:store"
    /\ threads' = [threads EXCEPT ![t].pc = "append:store2"]
    /\ hist' = [hist EXCEPT !.ub = @ \/ hist.writing # 0, !.writing = t]
    /\ UNCHANGED <<cfgVars, facadeVars>>

\* (mutant) the keys are added to the built-in keys
ThreadAppendStoreRestOverBuiltins(t) ==
    /\ CanStep
    /\ threads[t].pc = "append:store2"
    /\ contextKeys' = BuiltinKeys \o threads[t].keys
    /\ threads' = [threads EXCEPT ![t].pc = "idle"]
    /\ hist' = [hist EXCEPT !.writing = 0, !.appends = Append(@, threads[t].keys)]
    /\ UNCHANGED <<cfgVars, loggers, counts, ctx, status, last, prev>>

\* (mutant) the keys are put in front of the ones loaded
ThreadAppendStoreRestFront(t) ==
    /\ CanStep
    /\ threads[t].pc = "append:store2"
    /\ contextKeys' = threads[t].keys \o threads[t].seen
    /\ threads' = [threads EXCEPT ![t].pc = "idle"]
    /\ hist' = [hist EXCEPT !.writing = 0, !.appends = Append(@, threads[t].keys)]
    /\ UNCHANGED <<cfgVars, loggers, counts, ctx, status, last, prev>>

\* ... the rest of the header is stored, and AppendContextKeys returns
ThreadAppendStoreRest(t) ==
    /\ CanStep
    /\ threads[t].pc = "append:store2"
    /\ contextKeys' = threads[t].seen \o threads[t].keys
    /\ threads' = [threads EXCEPT ![t].pc = "idle"]
    /\ hist' = [hist EXCEPT !.writing = 0, !.appends = Append(@, threads[t].keys)]
    /\ UNCHANGED <<cfgVars, loggers, counts, ctx, status, last, prev>>

\* go GetLoggingFields(ctx), or go l.Info(ctx, msg, fields...) and the like,
\* which begins with extractTrace(ctx) and so with GetLoggingFields(ctx).
ThreadCallExtract(t, op, l) ==
    /\ CanStep
    /\ threads[t].pc = "idle"
    /\ threads' = [threads EXCEPT ![t] =
           [NoThread EXCEPT !.pc = "get:len", !.op = op, !.logger = l]]
    /\ hist' = [hist EXCEPT !.overlapRW = @ \/ \E u \in Threads \ {t} : InAppend(u)]
    /\ UNCHANGED <<cfgVars, facadeVars>>

\* make([]LoggingField, 0, len(contextKeys))
ThreadGetLen(t) ==
    /\ CanStep
    /\ threads[t].pc = "get:len"
    /\ threads' = [threads EXCEPT ![t].pc = "get:range"]
    /\ UNCHANGED <<cfgVars, facadeVars, hist>>

\* for _, key := range contextKeys: the header is loaded, once
ThreadGetRange(t) ==
    /\ CanStep
    /\ threads[t].pc = "get:range"
    /\ threads' = [threads EXCEPT ![t].pc = "get:iter", ![t].seen = contextKeys]
    /\ hist' = [hist EXCEPT !.ub = @ \/ hist.writing # 0]
    /\ UNCHANGED <<cfgVars, facadeVars>>

\* ... the loop runs over the slice it loaded, and GetLoggingFields returns
ThreadGetIter(t) ==
    /\ CanStep
    /\ threads[t].pc = "get:iter"
    /\ threads' = [threads EXCEPT
           ![t].pc = IF threads[t].op = "GetLoggingFields" THEN "idle" ELSE "emit",
           ![t].result = RangeContextKeys(ThreadCtx(t), threads[t].seen)]
    /\ UNCHANGED <<cfgVars, facadeVars, hist>>

\* (mutant) the extracted fields are kept on the instance between
\* extractTrace and the write: the write takes those of the goroutine that
\* extracted first
ThreadTraceShared(t) ==
    LET holders == {u \in Threads : threads[u].pc = "emit"}
    IN  ToZapFields(threads[CHOOSE u \in holders : \A v \in holders : u <= v].result)

\* The fields extractTrace returns to the emission of goroutine t: a slice
\* of the call's own.
ThreadTrace(t) == ToZapFields(threads[t].result)

\* z.zapLogger.With(trace...).<Severity>(msg, fields...): a clone of the
\* engine's logger, of this call alone, is handed the entry.
ThreadEmit(t) ==
    /\ CanStep
    /\ threads[t].pc = "emit"
    /\ threads' = [threads EXCEPT
           ![t].pc = "idle",
           ![t].emitted = TRUE,
           ![t].entry = EntryOf(loggers[threads[t].logger], ThreadTrace(t),
                                ThreadSeverity(threads[t].op), "started", ThreadFields(t))]
    /\ UNCHANGED <<cfgVars, facadeVars, hist>>

(***************************************************************************)
(* SpecThreads: NewLogger(WithLevel(debug)), and then goroutines that      *)
(* append keys, extract fields, emit and call With, all at once.           *)
(***************************************************************************)
InitThreads ==
    /\ opts = <<Opt("WithLevel", <<LevelDebug>>)>>
    /\ cfg = ZeroConfig
    /\ idx = 0
    /\ pc = "enter"
    /\ applied = [opt |-> NoOption, before |-> ZeroConfig]
    /\ ret = NoReturn
    /\ contextKeys = BuiltinKeys
    /\ loggers = <<>>
    /\ counts = <<>>
    /\ ctx = Background
    /\ status = "running"
    /\ last = NoCall
    /\ prev = NoCall
    /\ threads = NoThreads
    /\ hist = NoHist

NextThreads ==
    \/ NewLoggerEnter
    \/ NewLoggerApply
    \/ NewLoggerBuild
    \/ \E t \in Threads : ThreadCallAppend(t)
    \/ \E t \in Threads : ThreadAppendLoad(t)
    \/ \E t \in Threads : ThreadAppendStore(t)
    \/ \E t \in Threads : ThreadAppendStoreRest(t)
    \/ \E t \in Threads : ThreadCallExtract(t, "GetLoggingFields", 0)
    \/ \E t \in Threads, l \in 1..Len(loggers) : ThreadCallExtract(t, ThreadOp(t), l)
    \/ \E t \in Threads : ThreadGetLen(t)
    \/ \E t \in Threads : ThreadGetRange(t)
    \/ \E t \in Threads : ThreadGetIter(t)
    \/ \E t \in Threads : ThreadEmit(t)
    \/ \E l \in 1..Len(loggers), fields \in ThreadWithArgs : With(l, fields)

SpecThreads == InitThreads /\ [][NextThreads]_vars

(***************************************************************************)
(* SpecRepeat: NewLogger(WithLevel(debug)), and a caller that appends      *)
(* empty keys and keys already registered, derives contexts, extracts and  *)
(* emits.                                                                  *)
(***************************************************************************)
RepeatAppendArgs == {<<"user_id">>, <<"">>, <<"tenant", "tenant">>}

NextRepeat ==
    \/ NewLoggerEnter
    \/ NewLoggerApply
    \/ NewLoggerBuild
    \/ GetLoggingFieldsCall
    \/ \E keys \in RepeatAppendArgs : AppendContextKeys(keys)
    \/ \E b \in FacadeBindings : WithValue(b)
    \/ \E l \in 1..Len(loggers), fields \in FieldArgs :
          \/ Info(l, "started", fields, BurstLimit)
          \/ Error(l, "started", fields, BurstLimit)

SpecRepeat == InitThreads /\ [][NextRepeat]_vars

(***************************************************************************)
(* Claims about the configuration resolver (SpecValidate, SpecConfig).     *)
(***************************************************************************)
SixLevels  == {"debug", "info", "warning", "error", "panic", "fatal"}
ThreeModes == {"development", "staging", "production"}

\* The built-in default, as section 4.2 of the specification lists it.
BuiltinDefault ==
    [Level |-> "info", Encoding |-> "json", AppMode |-> "development",
     NewRelicApp |-> NilApp,
     TimeKey |-> "time", LevelKey |-> "level", NameKey |-> "logger",
     CallerKey |-> "caller", MessageKey |-> "message", StacktraceKey |-> "stack_trace",
     DisableStacktrace |-> TRUE, DisableCaller |-> TRUE,
     OutputPaths |-> <<"stdout">>, ErrorOutputPaths |-> <<"stderr">>]

AllOpenable(paths) == \A i \in 1..Len(paths) : paths[i] # "/nodir/app.log"

\* The other settings of the resolved configuration are acceptable.
SinksOpen == AllOpenable(cfg.OutputPaths) /\ AllOpenable(cfg.ErrorOutputPaths)

Returned == pc = "done" /\ ret.done
Succeeded == ret.err = NoError /\ ret.logger \in 1..Len(loggers)
Failed    == ret.err # NoError /\ ret.logger = 0 /\ loggers = <<>>

\* C1: with the other settings valid, NewLogger succeeds for each of the six
\* recognized level strings; for the empty string and any other string it
\* returns no logger and an error, and that error (the mode being valid, so
\* that the level is looked at) names the six valid levels.
C1_LevelValidation ==
    Returned =>
        /\ (cfg.Level \in SixLevels /\ cfg.AppMode \in ThreeModes /\ SinksOpen) => Succeeded
        /\ cfg.Level \notin SixLevels => Failed
        /\ (cfg.Level \notin SixLevels /\ cfg.AppMode \in ThreeModes) =>
               /\ ret.err.levels = <<"debug", "info", "warning", "error", "panic", "fatal">>
               /\ ret.err.msg = IF cfg.Level = "" THEN "logging level cannot be empty"
                                ELSE "invalid logging level"

C1_Witness ==
    /\ Returned /\ cfg.Level = "trace" /\ cfg.AppMode = "staging"
    /\ Failed /\ ret.err.levels = LevelNames

\* C2: with the other settings valid, NewLogger succeeds for development,
\* staging and production, the first two on the verbose preset and the last
\* on the performance preset (the one that samples); for every other mode,
\* "" and "empty" included, it returns no logger and an error.
C2_ModeValidation ==
    Returned =>
        /\ (cfg.AppMode \in ThreeModes /\ cfg.Level \in SixLevels /\ SinksOpen) =>
               /\ Succeeded
               /\ loggers[ret.logger].engine.sampling = (cfg.AppMode = "production")
               /\ cfg.NewRelicApp = NilApp =>
                      loggers[ret.logger].engine.development = (cfg.AppMode # "production")
        /\ cfg.AppMode \notin ThreeModes => Failed /\ ret.err.msg = "invalid app mode"

C2_Witness ==
    /\ Returned /\ cfg.AppMode = "empty" /\ cfg.Level = "error" /\ Failed

\* The field an option is named for, and the value it is given.
FieldOf(opt) ==
    CASE opt.name = "WithLevel"             -> "Level"
      [] opt.name = "WithEncoding"          -> "Encoding"
      [] opt.name = "WithAppMode"           -> "AppMode"
      [] opt.name = "WithNewRelicApp"       -> "NewRelicApp"
      [] opt.name = "WithTimeKey"           -> "TimeKey"
      [] opt.name = "WithLevelKey"          -> "LevelKey"
      [] opt.name = "WithNameKey"           -> "NameKey"
      [] opt.name = "WithCallerKey"         -> "CallerKey"
      [] opt.name = "WithMessageKey"        -> "MessageKey"
      [] opt.name = "WithStacktraceKey"     -> "StacktraceKey"
      [] opt.name = "WithDisableStacktrace" -> "DisableStacktrace"
      [] opt.name = "WithDisableCaller"     -> "DisableCaller"
      [] opt.name = "WithOutputPaths"       -> "OutputPaths"
      [] opt.name = "WithErrorOutputPaths"  -> "ErrorOutputPaths"
      [] OTHER                              -> None

ValueOf(opt) ==
    IF opt.name \in {"WithDisableStacktrace", "WithDisableCaller"} THEN opt.args[1] = "true"
    ELSE IF opt.name \in {"WithOutputPaths", "WithErrorOutputPaths"} THEN opt.args
    ELSE opt.args[1]

\* Whether option o writes field f: it is named for f, or it is the bundle
\* and f is not the handle.
WritesField(o, f) ==
    IF o.name = "WithDefaultConfig" THEN f # "NewRelicApp" ELSE FieldOf(o) = f

\* The last option of os writing field f (0: none).
LastWrite(os, f) ==
    LET W == {i \in 1..Len(os) : WritesField(os[i], f)}
    IN  IF W = {} THEN 0 ELSE CHOOSE i \in W : \A j \in W : j <= i

\* Last write wins, field by field, over the built-in default.
Expected(os) ==
    [f \in Fields |->
        IF LastWrite(os, f) = 0 \/ os[LastWrite(os, f)].name = "WithDefaultConfig"
        THEN BuiltinDefault[f]
        ELSE ValueOf(os[LastWrite(os, f)])]

\* C3: the configuration NewLogger builds from is the built-in default with
\* the options applied in argument order, the last write to a field winning;
\* NewLogger() has exactly the defaults and NewLogger(WithDefaultConfig(),
\* WithLevel(error)) the defaults with level error.
C3_LastWriteWins ==
    (pc = "apply" /\ idx > Len(opts)) \/ pc = "done" =>
        /\ \A f \in Fields : cfg[f] = Expected(opts)[f]
        /\ opts = <<>> => cfg = BuiltinDefault
        /\ opts = <<Opt("WithDefaultConfig", <<>>), Opt("WithLevel", <<"error">>)>> =>
               cfg = [BuiltinDefault EXCEPT !.Level = "error"]

C3_Witness ==
    /\ pc = "done"
    /\ opts = <<Opt("WithLevel", <<"fatal">>), Opt("WithDefaultConfig", <<>>),
                Opt("WithLevel", <<"error">>)>>
    /\ cfg = [BuiltinDefault EXCEPT !.Level = "error"]

\* C4 as stated: whatever the option, at most the one field it is about
\* differs between the configuration before and after it.
C4_OneFieldEach ==
    applied.opt # NoOption =>
        \E f \in Fields : \A g \in Fields \ {f} : cfg[g] = applied.before[g]

\* C4, amended: every option but WithDefaultConfig sets the one field it is
\* named for to its argument and leaves the others as they were;
\* WithDefaultConfig sets every field but the New Relic handle to its
\* default and leaves the handle as it was.
C4_OptionFrame ==
    applied.opt # NoOption =>
        IF applied.opt.name = "WithDefaultConfig"
        THEN cfg = [BuiltinDefault EXCEPT !.NewRelicApp = applied.before.NewRelicApp]
        ELSE /\ cfg[FieldOf(applied.opt)] = ValueOf(applied.opt)
             /\ \A g \in Fields \ {FieldOf(applied.opt)} : cfg[g] = applied.before[g]

C4_Witness ==
    /\ applied.opt.name = "WithDefaultConfig"
    /\ applied.before.NewRelicApp = NRApp
    /\ applied.before.Level = "fatal"
    /\ cfg = [BuiltinDefault EXCEPT !.NewRelicApp = NRApp]

(***************************************************************************)
(* Claims about the field extractor (SpecExtract).                         *)
(***************************************************************************)
\* Context c holds a string under ContextKey k: its innermost binding of k
\* is a string.
Innermost(c, k) ==
    LET B == {i \in 1..Len(c.chain) : c.chain[i].keyType = "ContextKey" /\ c.chain[i].key = k}
    IN  IF B = {} THEN 0 ELSE CHOOSE i \in B : \A j \in B : j <= i

HoldsString(c, k) == Innermost(c, k) # 0 /\ c.chain[Innermost(c, k)].kind = "string"

\* The pairs of the registered keys that are non-empty and hold a string in
\* c, in the order of the registry.
FieldsIn(c, keys) ==
    LET sel == SelectSeq(keys, LAMBDA k : k # "" /\ HoldsString(c, k))
    IN  [j \in 1..Len(sel) |-> [Key |-> sel[j], Value |-> c.chain[Innermost(c, sel[j])].val]]

\* C5: for a non-nil context GetLoggingFields returns, in registry order,
\* the pair of each registered key that is non-empty and bound to a string,
\* and nothing else.
C5_ExtractsRegisteredStrings ==
    (last.op = "GetLoggingFields" /\ ~last.ctx.nil) =>
        last.result = FieldsIn(last.ctx, last.keys)

C5_Witness ==
    /\ last.op = "GetLoggingFields"
    /\ last.keys = BuiltinKeys \o <<"", "tenant">>
    /\ last.ctx.chain = <<Binding("ContextKey", "tenant", "string", "acme"),
                          Binding("ContextKey", "user_id", "int", "7")>>
    /\ last.result = <<[Key |-> "tenant", Value |-> "acme"]>>

\* C6: a GetLoggingFields call leaves the registry and the context as they
\* were, and two calls with the same context and the same registry return
\* the same sequence.
C6_PureRead ==
    last.op = "GetLoggingFields" =>
        /\ contextKeys = last.keys
        /\ ctx = last.ctx
        /\ (prev.op = "GetLoggingFields" /\ prev.ctx = last.ctx /\ prev.keys = last.keys) =>
               last.result = prev.result

C6_Witness ==
    /\ last.op = "GetLoggingFields" /\ prev.op = "GetLoggingFields"
    /\ prev.ctx = last.ctx /\ prev.keys = last.keys
    /\ "" \in {last.keys[i] : i \in 1..Len(last.keys)}
    /\ Len(last.result) = 2
    /\ last.result = prev.result

(***************************************************************************)
(* Claims about the facade (Spec, SpecLevel).                              *)
(***************************************************************************)
\* The severity each operation is named for.
SeverityOf(op) ==
    CASE op = "Debug" -> -1 [] op = "Info" -> 0 [] op = "Warn" -> 1
      [] op = "Error" -> 2  [] op = "Panic" -> 4 [] op = "Fatal" -> 5

\* The context's fields as the engine's string fields.
StringFieldsIn(c, keys) ==
    LET fs == FieldsIn(c, keys)
    IN  [j \in 1..Len(fs) |-> [Key |-> fs[j].Key, Type |-> "String", String |-> fs[j].Value]]

\* C7: with a nil context, whatever the registry holds, GetLoggingFields
\* returns the empty sequence, and the emission is carried out all the same:
\* the engine is handed the entry, with the logger's and the call's fields
\* and none from the context, and writes it as its level decides.
C7_NilContext ==
    (last.emitted /\ last.ctx.nil) =>
        /\ last.result = <<>>
        /\ last.entry.msg = last.msg
        /\ last.entry.fields = loggers[last.logger].fields \o last.args
        /\ ~loggers[last.logger].engine.sampling =>
               last.written = (SeverityOf(last.op) >= loggers[last.logger].engine.level)

C7_Witness ==
    /\ last.emitted /\ last.ctx.nil /\ last.op = "Error"
    /\ "" \in {last.keys[i] : i \in 1..Len(last.keys)}
    /\ last.args # <<>>
    /\ last.written
    /\ last.entry.fields = last.args

\* C8: each of the six operations hands the engine an entry of its own
\* severity with the given message, whose fields are the logger's own, then
\* the fields extracted from the call's context, then the caller's fields in
\* the order given.
C8_EmissionEntry ==
    last.emitted =>
        /\ last.op \in {"Debug", "Info", "Warn", "Error", "Panic", "Fatal"}
        /\ last.entry.level = SeverityOf(last.op)
        /\ last.entry.msg = last.msg
        /\ last.entry.fields =
               (loggers[last.logger].fields \o StringFieldsIn(last.ctx, last.keys)) \o last.args

C8_Witness ==
    /\ last.emitted /\ last.op = "Warn" /\ last.logger = 1 /\ last.msg = "started"
    /\ last.entry.fields =
           <<ZapString("user_id", "u1"), ZapString("tenant", "acme"),
             ZapInt("attempt", "3"), ZapString("component", "db")>>

\* The fields a logger got from the With calls that made it.
RECURSIVE Inherited(_)
Inherited(i) ==
    IF loggers[i].parent = 0 THEN <<>>
    ELSE Inherited(loggers[i].parent) \o loggers[i].added

\* C10: With returns a new instance carrying the receiver's fields and the
\* given ones, and no instance is changed by it: at any time every logger
\* holds exactly the fields of the With calls on its own line of descent,
\* and an emission carries those and none of another logger's.
C10_WithIsolated ==
    /\ \A i \in 1..Len(loggers) : loggers[i].fields = Inherited(i)
    /\ last.op = "With" =>
           \E i \in 1..Len(loggers) :
               /\ i > last.logger
               /\ loggers[i].parent = last.logger
               /\ loggers[i].fields = loggers[last.logger].fields \o last.args
    /\ last.emitted =>
           last.entry.fields =
               (Inherited(last.logger) \o StringFieldsIn(last.ctx, last.keys)) \o last.args

C10_Witness ==
    /\ Len(loggers) = 3
    /\ loggers[3].fields = <<ZapString("component", "db"), ZapString("request", "42")>>
    /\ last.emitted /\ last.logger = 1 /\ last.args # <<>>
    /\ last.entry.fields = last.args

\* The rank of a level string and of an operation in
\* debug < info < warn < error < panic < fatal.
LevelRank(level) ==
    CASE level = "debug" -> 1 [] level = "info" -> 2 [] level = "warning" -> 3
      [] level = "error" -> 4 [] level = "panic" -> 5 [] level = "fatal" -> 6

OpRank(op) ==
    CASE op = "Debug" -> 1 [] op = "Info" -> 2 [] op = "Warn" -> 3
      [] op = "Error" -> 4 [] op = "Panic" -> 5 [] op = "Fatal" -> 6

\* C9 as stated: an emission is recorded if and only if its severity is at
\* least the level the logger was constructed with.
C9_RecordedIffAtLeast ==
    last.emitted => (last.written <=> OpRank(last.op) >= LevelRank(cfg.Level))

\* C9, amended: an emission below the level is never recorded; one at or
\* above it is recorded, except that in production mode only the first 100
\* entries of one level and message within a tick of the sampler are.
C9_LevelFilter ==
    last.emitted =>
        /\ last.written => OpRank(last.op) >= LevelRank(cfg.Level)
        /\ (OpRank(last.op) >= LevelRank(cfg.Level) /\ cfg.AppMode # "production") =>
               last.written
        /\ (OpRank(last.op) >= LevelRank(cfg.Level) /\ cfg.AppMode = "production") =>
               /\ last.n >= 1
               /\ last.n <= 100 => last.written
               /\ last.n \in 101..199 => ~last.written

C9_Witness ==
    /\ last.emitted /\ last.op = "Warn" /\ cfg.Level = "warning"
    /\ cfg.AppMode = "production" /\ last.n = 101 /\ ~last.written

(***************************************************************************)
(* Claims about appending to the registry (SpecExtract).                   *)
(***************************************************************************)
\* A step that is a call of the named operation.
CallOf(op) == last' # last /\ last'.op = op

\* The extraction last' records has the pair of the key at position i of the
\* registry, after the fields of all keys before it.
PairInPlace(i) ==
    LET k   == last'.keys[i]
        pos == Len(FieldsIn(last'.ctx, SubSeq(last'.keys, 1, i - 1))) + 1
    IN  /\ pos <= Len(last'.result)
        /\ last'.result[pos] = [Key |-> k, Value |-> last'.ctx.chain[Innermost(last'.ctx, k)].val]

Did(e) == \E i \in 1..Len(last.effects) : last.effects[i] = e

\* The last call stopped the caller: by a panic or by ending the process.
Stopped == Did("panic") \/ Did("exit")

\* C13 as stated: a Panic emission records its entry and then panics, a
\* Fatal emission records its entry and then ends the process, and the
\* other four do neither.
C13_RecordThenStop ==
    last.emitted =>
        /\ last.op = "Panic" => last.effects = <<"write", "panic">>
        /\ last.op = "Fatal" => last.effects = <<"write", "exit">>
        /\ last.op \in {"Debug", "Info", "Warn", "Error"} => ~Stopped

\* C13, amended: a Panic emission always panics and a Fatal emission always
\* ends the process; the entry is recorded first when the level and the
\* sampler admit it, and is not recorded otherwise (Panic on a logger of
\* level fatal; in production mode the 101st Panic of a message in a tick);
\* the other four neither panic nor end the process.
C13_StopAfterAdmittedRecord ==
    last.emitted =>
        LET admitted == /\ OpRank(last.op) >= LevelRank(cfg.Level)
                        /\ (cfg.AppMode = "production" => last.n <= 100)
        IN  /\ last.op = "Panic" =>
                  /\ last.panicked
                  /\ last.effects = IF admitted THEN <<"write", "panic">> ELSE <<"panic">>
            /\ last.op = "Fatal" =>
                  /\ last.exited /\ status = "exited"
                  /\ last.effects = IF admitted THEN <<"write", "exit">> ELSE <<"exit">>
            /\ last.op \in {"Debug", "Info", "Warn", "Error"} =>
                  /\ ~Stopped /\ ~last.panicked /\ ~last.exited
                  /\ status = "running"

C13_Witness ==
    /\ last.emitted /\ last.op = "Fatal" /\ cfg.Level = "error"
    /\ last.effects = <<"write", "exit">>
    /\ status = "exited"

(***************************************************************************)
(* Claims about what the application mode selects (SpecValidate).          *)
(***************************************************************************)
\* NewLogger was called with WithAppMode(m) and nothing else, and returned
\* a logger.
OnlyAppMode(m) ==
    /\ Succeeded
    /\ opts = <<Opt("WithAppMode", <<m>>)>>

\* C14: with only the mode given, development has console encoding, debug
\* level and caller information; staging has JSON encoding and info level;
\* production has JSON encoding and warn level.
C14_ModePresets ==
    /\ OnlyAppMode("development") =>
           LET e == loggers[ret.logger].engine
           IN  e.encoding = "console" /\ e.level = -1 /\ e.addCaller
    /\ OnlyAppMode("staging") =>
           LET e == loggers[ret.logger].engine
           IN  e.encoding = "json" /\ e.level = 0
    /\ OnlyAppMode("production") =>
           LET e == loggers[ret.logger].engine
           IN  e.encoding = "json" /\ e.level = 1

\* What NewLogger(WithAppMode(development)) returns: JSON encoding, info
\* level, no caller information.
C14_Witness ==
    /\ OnlyAppMode("development")
    /\ loggers[ret.logger].engine.encoding = "json"
    /\ loggers[ret.logger].engine.level = 0
    /\ ~loggers[ret.logger].engine.addCaller

(***************************************************************************)
(* Claims about the encoding (SpecConfig).                                 *)
(***************************************************************************)
\* C15: Encoding.String keeps json and console and gives one fixed encoding,
\* console, for every other value; with such a value NewLogger returns what
\* it returns when console is requested, and never an error about the
\* encoding.
C15_EncodingFallback ==
    /\ \A e \in {"json", "console", "xml", "", "JSON"} :
           EncodingString(e) = IF e \in {"json", "console"} THEN e ELSE "console"
    /\ (ret.done /\ cfg.Encoding \notin {"json", "console"}) =>
           LET asConsole == Resolve([cfg EXCEPT !.Encoding = "console"])
           IN  /\ ret.err = asConsole.err
               /\ ret.err.msg # "no encoder registered for name"
               /\ ret.err = NoError =>
                      /\ loggers[ret.logger].engine = asConsole.engine
                      /\ loggers[ret.logger].engine.encoding = "console"

C15_Witness ==
    /\ ret.done /\ ret.err = NoError
    /\ cfg.Encoding = "xml"
    /\ loggers[ret.logger].engine.encoding = "console"

(***************************************************************************)
(* Claims about goroutines (SpecThreads).                                  *)
(***************************************************************************)
\* Goroutines t and u are about to access the registry variable, t to
\* store it: with nothing ordering the two accesses, a data race.
Conflict(t, u) ==
    /\ t # u
    /\ Access(threads[t].pc) = "write"
    /\ Access(threads[u].pc) \in {"read", "write"}

\* C16: the registry is stored while an extraction reads it only in runs in
\* which an append and an extraction were in progress at once: when every
\* append has returned before the first extraction begins there is no such
\* state.  (That there is one otherwise is C16_Witness.)
C16_RaceOnlyWhenOverlapping ==
    \A t \in Threads, u \in Threads :
        ((Conflict(t, u) \/ Conflict(u, t)) /\ InExtract(u)) => hist.overlapRW

C16_Witness ==
    \E t \in Threads, u \in Threads :
        /\ threads[t].pc = "append:store" /\ threads[u].pc = "get:range"
        /\ threads[u].op = "Error"
        /\ Conflict(t, u)

\* The entry of goroutine t's last emission is made of the instance's
\* fields, the fields of its own context and its own fields.
OwnEntry(t) ==
    /\ threads[t].entry.level = (IF t = 1 THEN 0 ELSE 2)
    /\ threads[t].entry.msg = "started"
    /\ threads[t].entry.fields =
           (loggers[threads[t].logger].fields
            \o StringFieldsIn(ThreadCtx(t), threads[t].seen))
           \o ThreadFields(t)

\* C17: with goroutines emitting and calling With on the same instances at
\* once, every entry written has the instance's fields, the context fields
\* of its own call and the caller fields of its own call, and no step
\* changes an instance there is.
C17_ConcurrentEmissions ==
    /\ [](\A t \in Threads : threads[t].emitted => OwnEntry(t))
    /\ [][/\ Len(loggers') >= Len(loggers)
          /\ \A i \in 1..Len(loggers) : loggers'[i] = loggers[i]]_vars

C17_Witness ==
    /\ threads[1].emitted /\ threads[1].logger = 2
    /\ threads[1].entry.fields =
           <<ZapString("request", "42"), ZapString("user_id", "u1"), ZapInt("attempt", "3")>>
    /\ threads[2].pc = "emit" /\ threads[2].logger = 2
    /\ threads[2].result = <<[Key |-> "user_id", Value |-> "u2"]>>

(***************************************************************************)
(* Claims about the registry's contents (SpecThreads).                     *)
(***************************************************************************)
\* The step keeps every entry of the registry where it is.
KeepsEntries ==
    /\ Len(contextKeys') >= Len(contextKeys)
    /\ SubSeq(contextKeys', 1, Len(contextKeys)) = contextKeys

\* The step is the return of an append by a goroutine, which put its
\* arguments, in their order, at the end.
AppendsAtEnd ==
    \E t \in Threads :
        /\ threads[t].pc = "append:store2" /\ threads'[t].pc = "idle"
        /\ contextKeys' = contextKeys \o threads[t].keys

ElevenBuiltins ==
    <<"user_id", "trace_id", "span_id", "entity_guid", "hostname", "application_name",
      "application_environment", "request_id", "accept_language", "user_context",
      "ip_address">>

\* C18 as stated: the registry always begins with the eleven built-in keys
\* in their order, no step removes or reorders an entry or shortens the
\* registry, and what changes it is an append putting its arguments at the
\* end.
C18_NeverRemoves ==
    /\ [](Len(contextKeys) >= 11 /\ SubSeq(contextKeys, 1, 11) = ElevenBuiltins)
    /\ [][/\ KeepsEntries
          /\ contextKeys' # contextKeys => AppendsAtEnd]_vars

\* C18, amended: the registry always begins with the eleven built-in keys
\* in their order; as long as no two AppendContextKeys calls have been in
\* progress at once, no step removes or reorders an entry or shortens the
\* registry, and what changes it is an append putting its arguments at the
\* end.
C18_KeepsUnlessAppendsOverlap ==
    /\ [](Len(contextKeys) >= 11 /\ SubSeq(contextKeys, 1, 11) = ElevenBuiltins)
    /\ [][~hist'.overlapWW =>
             /\ KeepsEntries
             /\ contextKeys' # contextKeys => AppendsAtEnd]_vars

C18_Witness ==
    /\ ~hist.overlapWW
    /\ hist.appends = <<<<"region", "">>, <<"tenant">>>>
    /\ contextKeys = ElevenBuiltins \o <<"region", "", "tenant">>

\* The keys of the appends that have returned, in the order they returned.
RECURSIVE Flatten(_)
Flatten(ss) == IF ss = <<>> THEN <<>> ELSE Head(ss) \o Flatten(Tail(ss))

AllIdle == \A t \in Threads : threads[t].pc = "idle"

\* C20: AppendContextKeys calls that do not overlap leave the keys of all of
\* them in the registry, in call order; calls that overlapped leave the
\* keys of at least the one that stored last.  (That two overlapping calls
\* can leave the keys of only one is C20_Witness.)
C20_LostUpdateOnlyWhenOverlapping ==
    /\ ~hist.overlapWW => contextKeys = ElevenBuiltins \o Flatten(hist.appends)
    /\ (~hist.ub /\ hist.appends # <<>>) =>
           LET lastKeys == hist.appends[Len(hist.appends)]
           IN  /\ Len(contextKeys) >= 11 + Len(lastKeys)
               /\ SubSeq(contextKeys, Len(contextKeys) - Len(lastKeys) + 1, Len(contextKeys))
                      = lastKeys

C20_Witness ==
    /\ hist.overlapWW /\ ~hist.ub /\ AllIdle
    /\ hist.appends = <<<<"region", "">>, <<"tenant">>>>
    /\ contextKeys = ElevenBuiltins \o <<"tenant">>

(***************************************************************************)
(* Claims about the logger NewLogger returns (SpecConfig).                 *)
(***************************************************************************)
\* The engine's number of a level string.
LevelNumber(level) ==
    CASE level = "debug" -> -1 [] level = "info" -> 0 [] level = "warning" -> 1
      [] level = "error" -> 2  [] level = "panic" -> 4 [] level = "fatal" -> 5

\* C19: the logger NewLogger returns has the level, encoding, field-name
\* keys, caller and stacktrace toggles, destinations and error destinations
\* of the resolved configuration, with and without a New Relic application.
C19_FullyConfigured ==
    (ret.done /\ ret.err = NoError) =>
        LET e == loggers[ret.logger].engine IN
        /\ e.level = LevelNumber(cfg.Level)
        /\ e.encoding = (IF cfg.Encoding \in {"json", "console"} THEN cfg.Encoding ELSE "console")
        /\ e.timeKey = cfg.TimeKey /\ e.levelKey = cfg.LevelKey /\ e.nameKey = cfg.NameKey
        /\ e.callerKey = cfg.CallerKey /\ e.messageKey = cfg.MessageKey
        /\ e.stacktraceKey = cfg.StacktraceKey
        /\ e.outputPaths = cfg.OutputPaths
        /\ e.addCaller = ~cfg.DisableCaller
        /\ (e.addStack # NoStacktrace) = ~cfg.DisableStacktrace
        /\ e.errorOutput = cfg.ErrorOutputPaths

\* NewLogger(WithNewRelicApp(app), WithDisableCaller(false)) returns a
\* logger that adds no caller information.
C19_Witness ==
    /\ ret.done /\ ret.err = NoError
    /\ opts = <<Opt("WithNewRelicApp", <<NRApp>>), Opt("WithDisableCaller", <<"false">>)>>
    /\ ~cfg.DisableCaller
    /\ ~loggers[ret.logger].engine.addCaller

(***************************************************************************)
(* Claims about empty and repeated keys (SpecRepeat).                      *)
(***************************************************************************)
\* How often key k is in a sequence of keys, and in a sequence of fields.
Occurrences(keys, k) == Cardinality({i \in 1..Len(keys) : keys[i] = k})
FieldsOfKey(fields, k) == Cardinality({i \in 1..Len(fields) : fields[i].Key = k})

\* The keys callers register and bind in this model, the empty one included.
KeysInUse == {"user_id", "tenant", ""}

\* C21: AppendContextKeys puts its arguments at the end of the registry as
\* they are, empty and already registered keys included; an extraction has
\* no field for the empty key and, for a key the context holds a string
\* for, one field per occurrence of the key in the registry, and so has the
\* entry of an emission, next to the logger's and the caller's fields.
C21_NoValidationNoDedup ==
    /\ [][CallOf("AppendContextKeys") => contextKeys' = contextKeys \o last'.result]_vars
    /\ [](\A k \in KeysInUse :
            LET n == IF k # "" /\ HoldsString(last.ctx, k)
                     THEN Occurrences(last.keys, k) ELSE 0
            IN  /\ (last.op = "GetLoggingFields" \/ last.emitted) =>
                       FieldsOfKey(last.result, k) = n
                /\ last.emitted =>
                       FieldsOfKey(last.entry.fields, k) =
                           n + FieldsOfKey(loggers[last.logger].fields \o last.args, k))

C21_Witness ==
    /\ last.emitted /\ last.op = "Info" /\ last.args = <<>>
    /\ last.keys = ElevenBuiltins \o <<"", "user_id">>
    /\ last.result = <<[Key |-> "user_id", Value |-> "u1"], [Key |-> "user_id", Value |-> "u1"]>>
    /\ last.entry.fields = <<ZapString("user_id", "u1"), ZapString("user_id", "u1")>>

====
